---- MODULE Spec2Model ----
(***************************************************************************)
(* A model of simple_orm: the FieldType / DatabaseField value model, the   *)
(* DatabaseInsertable implementation generated by the derive macro         *)
(* (fields_value, from_fields, database_name) and the PostgresDB statement *)
(* engine (initialize, insert, update, delete, get) running against a      *)
(* small model of the SQL server behind tokio_postgres::Client.            *)
(*                                                                         *)
(* A text is kept as the sequence of the pieces format!() glues together;  *)
(* Str(t) is the string itself.                                            *)
(***************************************************************************)
EXTENDS Integers, Sequences, FiniteSets, TLC

VARIABLES
    db,         \* the server: table name -> table, or NoTable
    call,       \* the last call made to the library, with its inputs and its result
    scenario    \* how far the last calls got through initialize, insert, get of the end-to-end
                \* test, started without a users table; Fresh: without the table of User either

vars == <<db, call, scenario>>

(***************************************************************************)
(* Bounds of the model.                                                    *)
(***************************************************************************)
MaxRows == 2    \* rows a table holds at most
MaxConds == 2   \* conditions in one condition list at most
MaxCols == 2    \* descriptors of a hand-written schema at most

(***************************************************************************)
(* Texts.                                                                  *)
(***************************************************************************)
RECURSIVE Str(_)
Str(t) == IF t = <<>> THEN "" ELSE Head(t) \o Str(Tail(t))

RECURSIVE join(_, _)
\* Vec<String>::join(sep)
join(v, sep) ==
    IF v = <<>> THEN <<>>
    ELSE IF Len(v) = 1 THEN <<v[1]>>
    ELSE <<v[1], sep>> \o join(Tail(v), sep)

\* Display of a bool and of an integer inside format!()
BoolText(b) == IF b THEN "true" ELSE "false"
NumText(n) == ToString(n)

(***************************************************************************)
(* FieldType (database_field.rs): Number(i64) | String(String) | Bool(bool)*)
(***************************************************************************)
Number(v) == [tag |-> "Number", num |-> v, str |-> "", bool |-> FALSE]
String(v) == [tag |-> "String", num |-> 0, str |-> v, bool |-> FALSE]
Bool(v) == [tag |-> "Bool", num |-> 0, str |-> "", bool |-> v]

FieldTypeDefault == String("")

(***************************************************************************)
(* Values of the Rust types a derived struct may declare.  A value carries *)
(* its type: [ty, num, str, bool].                                         *)
(***************************************************************************)
\* from_fields is generated for u8..u64 and i8..i64, fields_value needs From<T> for
\* FieldType, which exists for these four: a struct with another integer type does not build
IntTys == {"u8", "i8", "i16", "i32"}
StrTys == {"String"}
BoolTys == {"bool"}

Native(ty, n, s, b) == [ty |-> ty, num |-> n, str |-> s, bool |-> b]
NInt(ty, n) == Native(ty, n, "", FALSE)
NStr(s) == Native("String", 0, s, FALSE)
NBool(b) == Native("bool", 0, "", b)

\* the range of an integer type
IntMin(ty) ==
    CASE ty = "u8" -> 0
      [] ty = "i8" -> -128
      [] ty = "i16" -> -32768
      [] ty = "i32" -> -2147483647 - 1
IntMax(ty) ==
    CASE ty = "u8" -> 255
      [] ty = "i8" -> 127
      [] ty = "i16" -> 32767
      [] ty = "i32" -> 2147483647

\* impl From<T> for FieldType
FieldTypeFrom(v) ==
    IF v.ty \in IntTys THEN Number(v.num)
    ELSE IF v.ty \in StrTys THEN String(v.str)
    ELSE Bool(v.bool)

\* <T as Default>::default()
NativeDefault(ty) ==
    IF ty \in IntTys THEN NInt(ty, 0)
    ELSE IF ty \in StrTys THEN NStr("")
    ELSE NBool(FALSE)

(***************************************************************************)
(* DatabaseField and its builder.  foreign_key is <<>> for None and        *)
(* <<foreign_db, foreign_field>> for Some.                                 *)
(***************************************************************************)
DatabaseFieldNew(field_name, field_type) ==
    [field_name |-> field_name, field_type |-> field_type, unique |-> FALSE,
     mandatory |-> FALSE, primary_key |-> FALSE, foreign_key |-> <<>>]

BuilderIsMandatory(dbf) == [dbf EXCEPT !.mandatory = TRUE]
BuilderIsPrimaryKey(dbf) == [dbf EXCEPT !.primary_key = TRUE]
BuilderIsForeignKey(dbf, foreign_db, foreign_field) ==
    [dbf EXCEPT !.foreign_key = <<foreign_db, foreign_field>>]
BuilderIsUnique(dbf) == [dbf EXCEPT !.unique = TRUE]

set_field_type(field, new_field_type) == [field EXCEPT !.field_type = new_field_type]

(***************************************************************************)
(* Struct declarations handed to #[derive(DatabaseInsertable)].            *)
(***************************************************************************)
Decl(name, ty, pk) == [name |-> name, ty |-> ty, primary_key |-> pk]

\* the struct of the tests of postgres.rs
User ==
    [ident |-> "User", derived |-> TRUE,
     fields |-> <<Decl("id", "String", TRUE), Decl("name", "String", FALSE),
                  Decl("age", "u8", FALSE), Decl("activated", "bool", FALSE)>>]

\* a second struct with the same member names, a wider age
Account ==
    [ident |-> "Account", derived |-> TRUE,
     fields |-> <<Decl("id", "String", TRUE), Decl("name", "String", FALSE),
                  Decl("age", "i32", FALSE), Decl("activated", "bool", FALSE)>>]

\* a third one, whose id is a number and whose key is composite
Badge ==
    [ident |-> "Badge", derived |-> TRUE,
     fields |-> <<Decl("id", "i16", TRUE), Decl("activated", "bool", TRUE),
                  Decl("level", "i8", FALSE)>>]

\* a fourth one, with a single member
Note ==
    [ident |-> "Note", derived |-> TRUE, fields |-> <<Decl("title", "String", TRUE)>>]

DerivedTypes == {User, Account, Badge}

FieldNames(S) == {S.fields[i].name : i \in 1..Len(S.fields)}
DeclOf(S, n) == S.fields[CHOOSE i \in 1..Len(S.fields) : S.fields[i].name = n]

\* the values the model gives to a member of a struct
SampleVals(S, n) ==
    CASE S.ident = "User" /\ n = "id" -> {NStr("abc"), NStr("x")}
      [] S.ident = "User" /\ n = "name" -> {NStr("Jo")}
      [] S.ident = "User" /\ n = "age" -> {NInt("u8", 25), NInt("u8", 255)}
      [] S.ident = "User" /\ n = "activated" -> {NBool(TRUE)}
      [] S.ident = "Account" /\ n = "id" -> {NStr("abc"), NStr("x")}
      [] S.ident = "Account" /\ n = "name" -> {NStr("Jo")}
      [] S.ident = "Account" /\ n = "age" -> {NInt("i32", 300)}
      [] S.ident = "Account" /\ n = "activated" -> {NBool(TRUE)}
      [] S.ident = "Badge" /\ n = "id" -> {NInt("i16", -1), NInt("i16", 25)}
      [] S.ident = "Badge" /\ n = "activated" -> {NBool(TRUE), NBool(FALSE)}
      [] S.ident = "Badge" /\ n = "level" -> {NInt("i8", -128), NInt("i8", 25)}
      [] S.ident = "Note" /\ n = "title" -> {NStr("O'Brien"), NStr("")}

\* an instance maps each member name to its value
Instances(S) ==
    {x \in [FieldNames(S) -> UNION {SampleVals(S, n) : n \in FieldNames(S)}] :
        \A n \in FieldNames(S) : x[n] \in SampleVals(S, n)}

DefaultInstance(S) == [n \in FieldNames(S) |-> NativeDefault(DeclOf(S, n).ty)]

(***************************************************************************)
(* The generated impl: database_name, fields_value, from_fields.           *)
(***************************************************************************)
database_name(S) == "aled"

field_value_initializer(d, x) ==
    LET b == DatabaseFieldNew(d.name, FieldTypeFrom(x[d.name]))
    IN  IF d.primary_key THEN BuilderIsPrimaryKey(b) ELSE b

fields_value(S, x) ==
    [i \in 1..Len(S.fields) |-> field_value_initializer(S.fields[i], x)]

\* results: Ok(value), Err(detail), or the thread panicked
Ok(v) == [tag |-> "Ok", value |-> v, detail |-> <<>>]
Err(d) == [tag |-> "Err", value |-> <<>>, detail |-> d]
Panic == [tag |-> "Panic", value |-> <<>>, detail |-> <<>>]

\* the narrowing done into i8 whatever the member's type
try_into_unwrap_i8(val, ty) ==
    IF IntMin("i8") <= val /\ val <= IntMax("i8") THEN Ok(NInt(ty, val)) ELSE Panic

\* i64::try_into::<T>().unwrap()
try_into_unwrap(val, ty) ==
    IF IntMin(ty) <= val /\ val <= IntMax(ty) THEN Ok(NInt(ty, val)) ELSE Panic

\* the match on f.field_type() generated for a member of type ty
type_check(ty, f) ==
    IF ty \in IntTys
    THEN IF f.field_type.tag = "Number"
         THEN try_into_unwrap(f.field_type.num, ty)
         ELSE Err(<<"Mismatched field type for '", "id", "'">>)
    ELSE IF ty \in StrTys
    THEN IF f.field_type.tag = "String"
         THEN Ok(NStr(f.field_type.str))
         ELSE Err(<<"Mismatched field type for '", "id", "'">>)
    ELSE IF f.field_type.tag = "Bool"
         THEN Ok(NBool(f.field_type.bool))
         ELSE Err(<<"Mismatched field type for '", "id", "'">>)

\* fields.iter().find(|field| field.field_name() == name): an index, 0 for None
find(fields, name) ==
    LET hits == {i \in 1..Len(fields) : fields[i].field_name = name}
    IN  IF hits = {} THEN 0 ELSE CHOOSE i \in hits : \A j \in hits : i <= j

\* the not-found message naming id, as the mismatch message does
field_type_check_id(d, fields) ==
    LET i == find(fields, d.name)
    IN  IF i = 0
        THEN Err(<<"Field '", "id", "' not found in fields vector">>)
        ELSE type_check(d.ty, fields[i])

\* the initializer of one member inside Ok(Self { ... })
field_type_check(d, fields) ==
    LET i == find(fields, d.name)
    IN  IF i = 0
        THEN Err(<<"Field '", d.name, "' not found in fields vector">>)
        ELSE type_check(d.ty, fields[i])

\* members are initialized in declaration order; the first return or panic ends the call
from_fields(S, fields) ==
    LET inits == [i \in 1..Len(S.fields) |-> field_type_check(S.fields[i], fields)]
        bad == {i \in 1..Len(S.fields) : inits[i].tag # "Ok"}
    IN  IF bad = {}
        THEN Ok([n \in FieldNames(S) |->
                    inits[CHOOSE i \in 1..Len(S.fields) : S.fields[i].name = n].value])
        ELSE inits[CHOOSE i \in bad : \A j \in bad : i <= j]

(***************************************************************************)
(* Hand-written implementers of DatabaseInsertable: the table name and the *)
(* descriptors of the default instance are whatever the author wrote.      *)
(***************************************************************************)
HandWritten(ident, table, schema) ==
    [ident |-> ident, derived |-> FALSE, table |-> table, schema |-> schema]

\* D::database_name()
D_database_name(D) == IF D.derived THEN database_name(D) ELSE D.table

\* D::default().fields_value()
D_default_fields(D) ==
    IF D.derived THEN fields_value(D, DefaultInstance(D)) ELSE D.schema

(***************************************************************************)
(* DatabaseCondition (database_condition.rs).                              *)
(***************************************************************************)
ConditionOperator == {"Eq", "Gt", "Gte", "Lt", "Lte"}

DatabaseConditionNew(name, operator, value) ==
    [name |-> name, value |-> value, operator |-> operator]

(***************************************************************************)
(* PostgresDB: the private helpers.                                        *)
(***************************************************************************)
\* the operator table with the symbol of Gt copied into Gte
get_string_operator_gt(operator) ==
    CASE operator = "Eq" -> "="
      [] operator = "Gt" -> ">"
      [] operator = "Gte" -> ">"
      [] operator = "Lt" -> "<"
      [] operator = "Lte" -> "<="

get_string_operator(operator) ==
    CASE operator = "Eq" -> "="
      [] operator = "Gt" -> ">"
      [] operator = "Gte" -> ">="
      [] operator = "Lt" -> "<"
      [] operator = "Lte" -> "<="

stringify_condition(cond) ==
    CASE cond.value.tag = "String" ->
            Str(<<cond.name, " ", get_string_operator(cond.operator), " '",
                  cond.value.str, "'">>)
      [] cond.value.tag = "Number" ->
            Str(<<cond.name, " ", get_string_operator(cond.operator), " ",
                  NumText(cond.value.num)>>)
      [] cond.value.tag = "Bool" ->
            Str(<<cond.name, " ", get_string_operator(cond.operator), " ",
                  BoolText(cond.value.bool)>>)

\* the literal a value is rendered as in a value list
value_literal(v) ==
    CASE v.tag = "Number" -> NumText(v.num)
      [] v.tag = "String" -> Str(<<"'", v.str, "'">>)
      [] v.tag = "Bool" -> BoolText(v.bool)

RECURSIVE key_val_loop_trailing(_, _, _, _)
\* the for loop with the separator appended after every descriptor
key_val_loop_trailing(fields, idx, joined_key, joined_values) ==
    IF idx >= Len(fields) THEN <<joined_key, joined_values>>
    ELSE LET field == fields[idx + 1]
             k == joined_key \o <<field.field_name>>
             v == joined_values \o <<value_literal(field.field_type)>>
         IN  key_val_loop_trailing(fields, idx + 1, k \o <<", ">>, v \o <<", ">>)

RECURSIVE key_val_loop(_, _, _, _)
\* the for loop of stringify_datafield_in_key_val_string, from 0-based index idx on
key_val_loop(fields, idx, joined_key, joined_values) ==
    IF idx >= Len(fields) THEN <<joined_key, joined_values>>
    ELSE LET field == fields[idx + 1]
             k == joined_key \o <<field.field_name>>
             v == joined_values \o <<value_literal(field.field_type)>>
         IN  IF idx + 1 < Len(fields)
             THEN key_val_loop(fields, idx + 1, k \o <<", ">>, v \o <<", ">>)
             ELSE key_val_loop(fields, idx + 1, k, v)

stringify_datafield_in_key_val_string(fields) == key_val_loop(fields, 0, <<>>, <<>>)

RECURSIVE cond_loop_trailing(_, _, _)
\* the loop without its idx + 1 < len test
cond_loop_trailing(conditions, idx, cond) ==
    IF idx >= Len(conditions) THEN cond
    ELSE cond_loop_trailing(conditions, idx + 1,
            cond \o <<stringify_condition(conditions[idx + 1]), " AND ">>)

RECURSIVE cond_loop(_, _, _)
\* the for loop building the WHERE clause, from 0-based index idx on
cond_loop(conditions, idx, cond) ==
    IF idx >= Len(conditions) THEN cond
    ELSE LET c == cond \o <<stringify_condition(conditions[idx + 1])>>
         IN  IF idx + 1 < Len(conditions)
             THEN cond_loop(conditions, idx + 1, c \o <<" AND ">>)
             ELSE cond_loop(conditions, idx + 1, c)

\* the WHERE clause of update
update_cond(conditions) ==
    IF Len(conditions) > 0 THEN cond_loop(conditions, 0, <<" WHERE ">>) ELSE <<>>

\* the WHERE clause of delete
delete_cond(query) ==
    IF Len(query) > 0 THEN cond_loop(query, 0, <<" WHERE ">>) ELSE <<>>

\* the WHERE clause of get
get_cond(query) ==
    IF Len(query) > 0 THEN cond_loop(query, 0, <<" WHERE ">>) ELSE <<>>

(***************************************************************************)
(* PostgresDB::initialize: the statement.                                  *)
(***************************************************************************)
sql_type(field_type) ==
    CASE field_type.tag = "Number" -> "INTEGER"
      [] field_type.tag = "String" -> "TEXT"
      [] field_type.tag = "Bool" -> "BOOLEAN"

\* one element of table_fields
table_field(field) ==
    Str(<<field.field_name, " ", sql_type(field.field_type),
          IF field.mandatory THEN " NOT NULL" ELSE "",
          IF field.unique THEN " UNIQUE" ELSE "">>)

table_fields_of(fields) == [i \in 1..Len(fields) |-> table_field(fields[i])]

\* the list keeping the last primary key only
list_primary_key_last(fields) ==
    LET marked == {i \in 1..Len(fields) : fields[i].primary_key}
    IN  IF marked = {} THEN <<>>
        ELSE <<fields[CHOOSE i \in marked : \A j \in marked : j <= i].field_name>>

list_primary_key_of(fields) ==
    SelectSeq([i \in 1..Len(fields) |->
                  IF fields[i].primary_key THEN fields[i].field_name ELSE ""],
              LAMBDA n : n # "")

\* the (foreign_db, foreign_field) pairs pushed, in descriptor order
list_foreign_key_of(fields) ==
    SelectSeq([i \in 1..Len(fields) |-> fields[i].foreign_key], LAMBDA k : k # <<>>)

foreign_key_constraint(key) ==
    Str(<<"FOREIGN KEY (", key[2], ") REFERENCES ", key[1], "(", key[2],
          ") ON DELETE SET NULL">>)

constraints_of(fields) ==
    LET list_primary_key == list_primary_key_of(fields)
        list_foreign_key == list_foreign_key_of(fields)
        pk == IF Len(list_primary_key) > 0
              THEN <<Str(<<"PRIMARY KEY (">> \o join(list_primary_key, ",") \o <<")">>)>>
              ELSE <<>>
    IN  pk \o [i \in 1..Len(list_foreign_key) |-> foreign_key_constraint(list_foreign_key[i])]

initialize_req(D) ==
    LET fields == D_default_fields(D)
    IN  <<"CREATE TABLE IF NOT EXISTS ", D_database_name(D), " (\n">>
        \o join(table_fields_of(fields), ",\n") \o <<",\n">>
        \o join(constraints_of(fields), ",\n") \o <<");">>

insert_req(S, data) ==
    LET kv == stringify_datafield_in_key_val_string(fields_value(S, data))
    IN  <<"INSERT INTO ", D_database_name(S), "(">> \o kv[1] \o <<") VALUES(">>
        \o kv[2] \o <<")">>

update_req(S, data, conditions) ==
    LET cond == update_cond(conditions)
        kv == stringify_datafield_in_key_val_string(fields_value(S, data))
    IN  <<"UPDATE ", D_database_name(S), " SET (">> \o kv[1] \o <<") = (">>
        \o kv[2] \o <<")">> \o cond \o <<";">>

delete_req(D, query) ==
    <<"DELETE FROM ", D_database_name(D)>> \o delete_cond(query) \o <<";">>

get_field_str(fields) == join([i \in 1..Len(fields) |-> fields[i].field_name], ", ")

get_req(D, query) ==
    <<"SELECT ">> \o get_field_str(D_default_fields(D)) \o <<" from ",
      D_database_name(D)>> \o get_cond(query) \o <<";">>

(***************************************************************************)
(* The SQL server behind tokio_postgres::Client, as far as the statements  *)
(* above exercise it.  A table is [exists, cols, pk, unique, rows]; cols   *)
(* is a sequence of [name, ty]; a row maps each column name to a cell; a   *)
(* cell is a FieldType value or Null.  The server is handed what the       *)
(* statement text says: the table, the columns, the keys, the conditions.  *)
(***************************************************************************)
Null == [tag |-> "Null", num |-> 0, str |-> "", bool |-> FALSE]

NoTable == [exists |-> FALSE, cols |-> <<>>, pk |-> <<>>, unique |-> {}, rows |-> <<>>]

TableNames == {"aled", "users", "orgs", "teams"}

ServerOk(d, rows) == [ok |-> TRUE, db |-> d, rows |-> rows, error |-> ""]
ServerFail(d, e) == [ok |-> FALSE, db |-> d, rows |-> <<>>, error |-> e]

ColNames(t) == {t.cols[i].name : i \in 1..Len(t.cols)}
ColType(t, n) == t.cols[CHOOSE i \in 1..Len(t.cols) : t.cols[i].name = n].ty
Index(seq, e) == CHOOSE i \in 1..Len(seq) : seq[i] = e
Range(seq) == {seq[i] : i \in 1..Len(seq)}

\* byte order of the texts the model uses
TextOrder == <<"", "Bob", "Jo", "O'Brien", "abc", "x">>

\* a literal stored into a column of type ty: text columns take any literal
Assignable(v, ty) == sql_type(v) = ty \/ ty = "TEXT"
Stored(v, ty) ==
    IF sql_type(v) = ty THEN v
    ELSE IF v.tag = "Number" THEN String(NumText(v.num))
    ELSE String(BoolText(v.bool))

\* a condition is valid on t when its column exists and its literal has the column's type
CondValid(t, c) == c.name \in ColNames(t) /\ sql_type(c.value) = ColType(t, c.name)

Rank(v) ==
    CASE v.tag = "Number" -> v.num
      [] v.tag = "String" -> Index(TextOrder, v.str)
      [] v.tag = "Bool" -> IF v.bool THEN 1 ELSE 0

Compare(a, op, b) ==
    CASE op = "Eq" -> Rank(a) = Rank(b)
      [] op = "Gt" -> Rank(a) > Rank(b)
      [] op = "Gte" -> Rank(a) >= Rank(b)
      [] op = "Lt" -> Rank(a) < Rank(b)
      [] op = "Lte" -> Rank(a) <= Rank(b)

Matches(row, conds) ==
    \A i \in 1..Len(conds) :
        row[conds[i].name].tag # "Null" /\ Compare(row[conds[i].name], conds[i].operator, conds[i].value)

KeyOf(t, row) == [i \in 1..Len(t.pk) |-> row[t.pk[i]]]

\* primary key and UNIQUE columns hold no duplicate and the key no Null
KeysHold(t, rows) ==
    /\ \A i \in 1..Len(rows) : \A c \in Range(t.pk) : rows[i][c].tag # "Null"
    /\ \A i, j \in 1..Len(rows) :
          i # j =>
            /\ t.pk # <<>> => KeyOf(t, rows[i]) # KeyOf(t, rows[j])
            /\ \A c \in t.unique : rows[i][c].tag = "Null" \/ rows[i][c] # rows[j][c]

\* CREATE TABLE IF NOT EXISTS table (coldefs, constraints): fks are the
\* <<column, ref_table, ref_column>> of the FOREIGN KEY clauses of the text
ServerCreate(d, table, fields, pk, fks, n_constraints) ==
    LET new == [exists |-> TRUE,
                cols |-> [i \in 1..Len(fields) |->
                            [name |-> fields[i].field_name, ty |-> sql_type(fields[i].field_type)]],
                pk |-> pk,
                unique |-> {fields[i].field_name : i \in {j \in 1..Len(fields) : fields[j].unique}},
                rows |-> <<>>]
        target(n) == IF n = table THEN new ELSE d[n]
        FkOk(k) ==
            /\ k[1] \in ColNames(new)
            /\ k[2] \in TableNames
            /\ target(k[2]).exists
            /\ k[3] \in ColNames(target(k[2]))
            /\ target(k[2]).pk = <<k[3]>> \/ k[3] \in target(k[2]).unique
            /\ ColType(target(k[2]), k[3]) = ColType(new, k[1])
    IN  IF n_constraints = 0 THEN ServerFail(d, "syntax error at or near \")\"")
        ELSE IF d[table].exists THEN ServerOk(d, <<>>)
        ELSE IF \E i \in 1..Len(fks) : ~FkOk(fks[i])
        THEN ServerFail(d, "foreign key constraint cannot be implemented")
        ELSE ServerOk([d EXCEPT ![table] = new], <<>>)

\* INSERT INTO table(names) VALUES(values)
ServerInsert(d, table, fields) ==
    LET t == d[table]
        names == [i \in 1..Len(fields) |-> fields[i].field_name]
        row == [c \in ColNames(t) |->
                  IF c \in Range(names)
                  THEN Stored(fields[Index(names, c)].field_type, ColType(t, c))
                  ELSE Null]
    IN  IF ~t.exists THEN ServerFail(d, "relation does not exist")
        ELSE IF ~(Range(names) \subseteq ColNames(t)) THEN ServerFail(d, "column does not exist")
        ELSE IF \E i \in 1..Len(fields) : ~Assignable(fields[i].field_type, ColType(t, names[i]))
        THEN ServerFail(d, "column is of another type")
        ELSE IF ~KeysHold(t, Append(t.rows, row)) THEN ServerFail(d, "constraint violated")
        ELSE ServerOk([d EXCEPT ![table].rows = Append(t.rows, row)], <<>>)

\* UPDATE table SET (names) = (values) WHERE conds
ServerUpdate(d, table, fields, conds) ==
    LET t == d[table]
        names == [i \in 1..Len(fields) |-> fields[i].field_name]
        set(row) == [c \in ColNames(t) |->
                       IF c \in Range(names)
                       THEN Stored(fields[Index(names, c)].field_type, ColType(t, c))
                       ELSE row[c]]
        rows == [i \in 1..Len(t.rows) |->
                   IF Matches(t.rows[i], conds) THEN set(t.rows[i]) ELSE t.rows[i]]
    IN  IF Len(fields) = 1
        THEN ServerFail(d, "source for a multiple-column UPDATE item must be a sub-SELECT or ROW() expression")
        ELSE IF ~t.exists THEN ServerFail(d, "relation does not exist")
        ELSE IF ~(Range(names) \subseteq ColNames(t)) THEN ServerFail(d, "column does not exist")
        ELSE IF \E i \in 1..Len(fields) : ~Assignable(fields[i].field_type, ColType(t, names[i]))
        THEN ServerFail(d, "column is of another type")
        ELSE IF \E i \in 1..Len(conds) : ~CondValid(t, conds[i])
        THEN ServerFail(d, "invalid condition")
        ELSE IF ~KeysHold(t, rows) THEN ServerFail(d, "constraint violated")
        ELSE ServerOk([d EXCEPT ![table].rows = rows], <<>>)

\* DELETE FROM table WHERE conds
ServerDelete(d, table, conds) ==
    LET t == d[table]
    IN  IF ~t.exists THEN ServerFail(d, "relation does not exist")
        ELSE IF \E i \in 1..Len(conds) : ~CondValid(t, conds[i])
        THEN ServerFail(d, "invalid condition")
        ELSE ServerOk([d EXCEPT ![table].rows =
                          SelectSeq(t.rows, LAMBDA r : ~Matches(r, conds))], <<>>)

\* SELECT names FROM table WHERE conds: each row is the sequence of the selected cells
ServerSelect(d, table, names, conds) ==
    LET t == d[table]
        hits == SelectSeq(t.rows, LAMBDA r : Matches(r, conds))
    IN  IF ~t.exists THEN ServerFail(d, "relation does not exist")
        ELSE IF ~(Range(names) \subseteq ColNames(t)) THEN ServerFail(d, "column does not exist")
        ELSE IF \E i \in 1..Len(conds) : ~CondValid(t, conds[i])
        THEN ServerFail(d, "invalid condition")
        ELSE ServerOk(d, [i \in 1..Len(hits) |-> [j \in 1..Len(names) |-> hits[i][names[j]]]])

(***************************************************************************)
(* PostgresDB: the five operations, each returning <<result, db after>>.   *)
(***************************************************************************)
DatabaseError(error, details) == Err(<<error, details>>)

initialize(d, D) ==
    LET fields == D_default_fields(D)
        list_foreign_key == list_foreign_key_of(fields)
        fks == [i \in 1..Len(list_foreign_key) |->
                  <<list_foreign_key[i][2], list_foreign_key[i][1], list_foreign_key[i][2]>>]
        r == ServerCreate(d, D_database_name(D), fields, list_primary_key_of(fields), fks,
                          Len(constraints_of(fields)))
    IN  <<IF r.ok THEN Ok(<<>>) ELSE DatabaseError("CannotCreateTable", r.error), r.db>>

insert(d, S, data) ==
    LET r == ServerInsert(d, D_database_name(S), fields_value(S, data))
    IN  <<IF r.ok THEN Ok(<<>>) ELSE DatabaseError("CannotInsertInTable", r.error), r.db>>

update(d, S, data, conditions) ==
    LET r == ServerUpdate(d, D_database_name(S), fields_value(S, data), conditions)
    IN  <<IF r.ok THEN Ok(<<>>) ELSE DatabaseError("CannotUpdateInTable", r.error), r.db>>

delete(d, D, query) ==
    LET r == ServerDelete(d, D_database_name(D), query)
    IN  <<IF r.ok THEN Ok(<<>>) ELSE DatabaseError("CannotDeleteFromTable", r.error), r.db>>

\* row.get::<T>(idx) panics unless the cell is a non-null value of the SQL type of T
row_get_ok(cell, tag) == cell.tag = tag

RECURSIVE decode_row(_, _, _)
\* the inner loop of get over fields.iter_mut(), from 0-based index idx on:
\* Ok(fields with the row's values) or Panic
decode_row(fields, row, idx) ==
    IF idx >= Len(fields) THEN Ok(fields)
    ELSE LET field == fields[idx + 1]
             cell == row[idx + 1]
         IN  IF ~row_get_ok(cell, field.field_type.tag) THEN Panic
             ELSE decode_row([fields EXCEPT ![idx + 1] = set_field_type(field, cell)],
                             row, idx + 1)

RECURSIVE get_rows(_, _, _, _)
\* the outer loop of get over the rows left, fields carrying over from row to row
get_rows(S, fields, rows, objects) ==
    IF rows = <<>> THEN Ok(objects)
    ELSE LET new_obj_fields == decode_row(fields, Head(rows), 0)
             obj == from_fields(S, new_obj_fields.value)
         IN  IF new_obj_fields.tag = "Panic" THEN Panic
             ELSE IF obj.tag = "Panic" THEN Panic
             ELSE IF obj.tag = "Err" THEN DatabaseError("ExtractionFailed", Str(obj.detail))
             ELSE get_rows(S, new_obj_fields.value, Tail(rows), Append(objects, obj.value))

get(d, S, query) ==
    LET fields == D_default_fields(S)
        names == [i \in 1..Len(fields) |-> fields[i].field_name]
        r == ServerSelect(d, D_database_name(S), names, query)
    IN  <<IF r.ok THEN get_rows(S, fields, r.rows, <<>>)
          ELSE DatabaseError("InvalidQuery", r.error), r.db>>

(***************************************************************************)
(* Inputs.                                                                 *)
(***************************************************************************)
\* the user of the end-to-end test
TestUser ==
    [n \in FieldNames(User) |->
        CASE n = "id" -> NStr("abc")
          [] n = "name" -> NStr("Jo")
          [] n = "age" -> NInt("u8", 25)
          [] n = "activated" -> NBool(TRUE)]

\* a hand-written implementer whose table is users
HUser ==
    HandWritten("HUser", "users", <<BuilderIsPrimaryKey(DatabaseFieldNew("id", String("")))>>)

\* a hand-written implementer whose table is orgs, its key mandatory and unique
Org ==
    HandWritten("Org", "orgs",
        <<BuilderIsUnique(BuilderIsMandatory(BuilderIsPrimaryKey(
            DatabaseFieldNew("id1", Number(0)))))>>)

EngineTypes == {User, Account}

CondIdAbc == DatabaseConditionNew("id", "Eq", String("abc"))

CondPool ==
    {CondIdAbc,
     DatabaseConditionNew("age", "Gte", Number(18)),
     DatabaseConditionNew("activated", "Eq", Bool(TRUE))}

\* the condition lists of at most MaxConds conditions
CondLists == UNION {[1..n -> CondPool] : n \in 0..MaxConds}

\* the condition lists the engine is driven with
EngineQueries ==
    {<<>>, <<CondIdAbc>>,
     <<DatabaseConditionNew("age", "Gte", Number(18)),
       DatabaseConditionNew("activated", "Eq", Bool(TRUE))>>}

\* the instances of the derived types
InstancesOf == [S \in DerivedTypes |-> Instances(S)]

\* one instance of each engine type, for update
UpdateData == [S \in EngineTypes |-> {x \in Instances(S) : x["id"].str = "abc" /\ x["age"].num # 255}]

\* hand-written schemas on table teams: the descriptors id1, id2, owner in this order,
\* at most MaxCols of them, each primary key or not, id1 and owner foreign keys or not
SchemaColumn(n, pk, fk) ==
    LET f == DatabaseFieldNew(n, IF n = "owner" THEN String("") ELSE Number(0))
        g == IF pk THEN BuilderIsPrimaryKey(f) ELSE f
    IN  IF ~fk THEN g
        ELSE IF n = "id1" THEN BuilderIsForeignKey(g, "orgs", "id1")
        ELSE BuilderIsForeignKey(g, "users", "id")

SchemaNames == <<"id1", "id2", "owner">>

SchemaColumns(n) ==
    {SchemaColumn(n, pk, fk) : pk \in BOOLEAN, fk \in IF n = "id2" THEN {FALSE} ELSE BOOLEAN}

Schemas ==
    {s \in UNION {[1..k -> UNION {SchemaColumns(SchemaNames[i]) : i \in 1..Len(SchemaNames)}] :
                    k \in 1..MaxCols} :
        \A i, j \in 1..Len(s) :
            i < j => Index(SchemaNames, s[i].field_name) < Index(SchemaNames, s[j].field_name)}

SchemaTypes == {HandWritten("Team", "teams", s) : s \in Schemas} \cup {Org, Badge}

\* descriptor lists handed to from_fields: those of an instance, edited once
ProbeValues == {Number(25), Number(300), Number(-1), String("abc"), Bool(TRUE)}

NoEdit == [kind |-> "none", i |-> 0, v |-> FieldTypeDefault]

Edits(S) ==
    {NoEdit, [kind |-> "reverse", i |-> 0, v |-> FieldTypeDefault]}
    \cup {[kind |-> "remove", i |-> i, v |-> FieldTypeDefault] : i \in 1..Len(S.fields)}
    \cup {[kind |-> "replace", i |-> i, v |-> v] : i \in 1..Len(S.fields), v \in ProbeValues}

ApplyEdit(fields, e) ==
    CASE e.kind = "none" -> fields
      [] e.kind = "reverse" -> [i \in 1..Len(fields) |-> fields[Len(fields) + 1 - i]]
      [] e.kind = "remove" -> SubSeq(fields, 1, e.i - 1) \o SubSeq(fields, e.i + 1, Len(fields))
      [] e.kind = "replace" -> [fields EXCEPT ![e.i] = set_field_type(fields[e.i], e.v)]

(***************************************************************************)
(* The state machine.                                                      *)
(***************************************************************************)
Call(op, D, data, edit, fields, query, req, result) ==
    [op |-> op, D |-> D, data |-> data, edit |-> edit, fields |-> fields,
     query |-> query, req |-> req, result |-> result]

NoCall == Call("none", User, <<>>, NoEdit, <<>>, <<>>, <<>>, Ok(<<>>))

Init ==
    /\ db = [n \in TableNames |-> NoTable]
    /\ call = NoCall
    /\ scenario = "idle"

FieldsValue(S, x) ==
    /\ call' = Call("fields_value", S, x, NoEdit, <<>>, <<>>, <<>>, Ok(fields_value(S, x)))
    /\ UNCHANGED <<db, scenario>>

FromFields(S, x, e) ==
    LET fields == ApplyEdit(fields_value(S, x), e)
    IN  /\ call' = Call("from_fields", S, x, e, fields, <<>>, <<>>, from_fields(S, fields))
        /\ UNCHANGED <<db, scenario>>

Initialize(D) ==
    LET r == initialize(db, D)
    IN  /\ call' = Call("initialize", D, <<>>, NoEdit, <<>>, <<>>, initialize_req(D), r[1])
        /\ db' = r[2]
        /\ scenario' = IF D = User /\ ~db["users"].exists
                       THEN IF db[D_database_name(D)].exists THEN "initialized" ELSE "initializedFresh"
                       ELSE "idle"

Insert(S, data) ==
    LET r == insert(db, S, data)
    IN  /\ Len(db[D_database_name(S)].rows) < MaxRows
        /\ call' = Call("insert", S, data, NoEdit, <<>>, <<>>, insert_req(S, data), r[1])
        /\ db' = r[2]
        /\ scenario' = IF S = User /\ data = TestUser /\ scenario = "initialized" THEN "inserted"
                       ELSE IF S = User /\ data = TestUser /\ scenario = "initializedFresh"
                       THEN "insertedFresh"
                       ELSE "idle"

Update(S, data, conditions) ==
    LET r == update(db, S, data, conditions)
    IN  /\ call' = Call("update", S, data, NoEdit, <<>>, conditions,
                        update_req(S, data, conditions), r[1])
        /\ db' = r[2]
        /\ scenario' = "idle"

Delete(D, query) ==
    LET r == delete(db, D, query)
    IN  /\ call' = Call("delete", D, <<>>, NoEdit, <<>>, query, delete_req(D, query), r[1])
        /\ db' = r[2]
        /\ scenario' = "idle"

Get(S, query) ==
    LET r == get(db, S, query)
    IN  /\ call' = Call("get", S, <<>>, NoEdit, <<>>, query, get_req(S, query), r[1])
        /\ db' = r[2]
        /\ scenario' = IF S = User /\ query = <<CondIdAbc>> /\ scenario = "inserted" THEN "got"
                       ELSE IF S = User /\ query = <<CondIdAbc>> /\ scenario = "insertedFresh"
                       THEN "gotFresh"
                       ELSE "idle"

\* the statement engine on the derived types and on HUser
Next ==
    \/ \E D \in EngineTypes \cup {HUser} : Initialize(D)
    \/ \E S \in EngineTypes : \E data \in InstancesOf[S] : Insert(S, data)
    \/ \E S \in EngineTypes : \E data \in InstancesOf[S] : \E c \in EngineQueries :
          Update(S, data, c)
    \/ \E D \in EngineTypes \cup {HUser} : \E c \in EngineQueries : Delete(D, c)
    \/ \E S \in EngineTypes : \E c \in EngineQueries : Get(S, c)

Spec == Init /\ [][Next]_vars

\* the generated marshalling alone
NextMarshal ==
    \/ \E S \in DerivedTypes : \E x \in InstancesOf[S] : FieldsValue(S, x)
    \/ \E S \in DerivedTypes : \E x \in InstancesOf[S] : \E e \in Edits(S) : FromFields(S, x, e)

SpecMarshal == Init /\ [][NextMarshal]_vars

\* the statements with a WHERE clause, over every condition list
NextWhere ==
    \/ \E D \in EngineTypes \cup {HUser} : Initialize(D)
    \/ \E S \in EngineTypes : \E data \in UpdateData[S] : \E c \in CondLists : Update(S, data, c)
    \/ \E D \in EngineTypes \cup {HUser} : \E c \in CondLists : Delete(D, c)
    \/ \E S \in EngineTypes : \E c \in CondLists : Get(S, c)

SpecWhere == Init /\ [][NextWhere]_vars

\* every condition on a member of User: each operator, each kind of value
RenderPool ==
    {DatabaseConditionNew(n, o, v) :
        n \in {"name", "age", "activated"}, o \in ConditionOperator,
        v \in {String("Bob"), Number(18), Bool(TRUE)}}

\* update, delete and get of User under one condition
NextCond ==
    \/ Initialize(User)
    \/ \E c \in RenderPool : Update(User, TestUser, <<c>>)
    \/ \E c \in RenderPool : Delete(User, <<c>>)
    \/ \E c \in RenderPool : Get(User, <<c>>)

SpecCond == Init /\ [][NextCond]_vars

\* the derived structs insert and update are driven with, of one, three and four members,
\* and their instances
InsertTypes == {User, Badge, Note}
InsertData ==
    [S \in InsertTypes |->
        IF S = Badge THEN {x \in Instances(S) : x["activated"].bool} ELSE Instances(S)]

\* initialize, insert and update over these structs
NextInsert ==
    \/ \E S \in InsertTypes : Initialize(S)
    \/ \E S \in InsertTypes : \E data \in InsertData[S] : Insert(S, data)
    \/ \E S \in InsertTypes : \E data \in InsertData[S] : Update(S, data, <<>>)

SpecInsert == Init /\ [][NextInsert]_vars

\* initialize over the hand-written schemas
NextSchema == \E D \in SchemaTypes : Initialize(D)

SpecSchema == Init /\ [][NextSchema]_vars

(***************************************************************************)
(* Properties.                                                             *)
(***************************************************************************)
EngineOps == {"initialize", "insert", "update", "delete", "get"}

\* the number of pieces of a text equal to e, and the places of a piece
Count(t, e) == Cardinality({i \in 1..Len(t) : t[i] = e})
Places(t, e) == {i \in 1..Len(t) : t[i] = e}

\* the table a statement targets: the piece after the leading keyword, or after from
TargetTable(req) ==
    IF req[1] = "SELECT " THEN req[(CHOOSE i \in 1..Len(req) : req[i] = " from ") + 1]
    ELSE req[2]

\* the member an edit of a from_fields call touches
EditedField(c) == c.D.fields[c.edit.i]

\* the variant from_fields expects for a member of type ty
ExpectedTag(ty) ==
    IF ty \in IntTys THEN "Number" ELSE IF ty \in StrTys THEN "String" ELSE "Bool"

\* C1: from_fields(fields_value(x)) is Ok with a record whose every member equals that of x.
C1_RoundTrip ==
    (call.op = "from_fields" /\ call.edit.kind = "none") =>
        /\ call.result.tag = "Ok"
        /\ \A n \in FieldNames(call.D) : call.result.value[n] = call.data[n]

C1_Witness ==
    /\ call.op = "from_fields" /\ call.edit.kind = "none"
    /\ call.D = Badge /\ call.data["id"] = NInt("i16", -1)
    /\ call.result.tag = "Ok" /\ call.result.value["id"].num = -1

\* C2: replacing the value of member f's descriptor by a value of the wrong variant makes
\* from_fields return an error whose detail names f and no other member.
C2_MismatchNamesField ==
    (/\ call.op = "from_fields" /\ call.edit.kind = "replace"
     /\ call.edit.v.tag # ExpectedTag(EditedField(call).ty)) =>
        /\ call.result.tag = "Err"
        /\ Str(call.result.detail)
             = "Mismatched field type for '" \o EditedField(call).name \o "'"

\* C3: removing member f's descriptor from the descriptor list of an instance makes
\* from_fields return an error whose detail names f.
C3_MissingNamesField ==
    (call.op = "from_fields" /\ call.edit.kind = "remove") =>
        /\ call.result.tag = "Err"
        /\ Str(call.result.detail)
             = "Field '" \o EditedField(call).name \o "' not found in fields vector"

C3_Witness ==
    /\ call.op = "from_fields" /\ call.edit.kind = "remove"
    /\ call.D = User /\ EditedField(call).name = "age"
    /\ Len(call.fields) = Len(User.fields) - 1
    /\ Str(call.result.detail) = "Field 'age' not found in fields vector"

\* C4: from_fields returns Ok or Err for every descriptor list, also when a Number lies
\* outside the range of the member's integer type: it never panics.
C4_FromFieldsNeverPanics ==
    call.op = "from_fields" => call.result.tag \in {"Ok", "Err"}

\* C5: every statement targets the table named after the record type and no table of
\* another type; Insert of the test user into User is the INSERT INTO users text.
C5_TableNamedAfterType ==
    (call.op \in EngineOps /\ call.D.derived) =>
        /\ \A S \in DerivedTypes \ {call.D} : TargetTable(call.req) # database_name(S)
        /\ call.D = User => TargetTable(call.req) = "users"
        /\ (call.op = "insert" /\ call.D = User /\ call.data = TestUser) =>
              Str(call.req)
                = "INSERT INTO users(id, name, age, activated) VALUES('abc', 'Jo', 25, true)"

RECURSIVE CommaList(_)
\* names separated by commas
CommaList(q) ==
    IF Len(q) = 0 THEN "" ELSE IF Len(q) = 1 THEN q[1] ELSE q[1] \o "," \o CommaList(Tail(q))

\* every PRIMARY KEY constraint over some of the names of fields, in any order
Arrangements(fields) ==
    {q \in UNION {[1..k -> {fields[i].field_name : i \in 1..Len(fields)}] : k \in 1..Len(fields)} :
        \A i, j \in 1..Len(q) : i # j => q[i] # q[j]}
PrimaryKeyTexts(fields) == {"PRIMARY KEY (" \o CommaList(q) \o ")" : q \in Arrangements(fields)}

\* the primary-key-marked names in descriptor order
MarkedNames(fields) ==
    LET marked == {i \in 1..Len(fields) : fields[i].primary_key}
        nth(k) == CHOOSE i \in marked : Cardinality({j \in marked : j < i}) = k - 1
    IN  [k \in 1..Cardinality(marked) |-> fields[nth(k)].field_name]

ForeignKeyText(field) ==
    "FOREIGN KEY (" \o field.field_name \o ") REFERENCES " \o field.foreign_key[1] \o "("
    \o field.foreign_key[2] \o ") ON DELETE SET NULL"

\* C6: for every foreign-key-marked descriptor n -> ref_table(ref_column) the create-table
\* statement holds exactly one clause FOREIGN KEY (n) REFERENCES ref_table(ref_column)
\* ON DELETE SET NULL, the clauses in descriptor order after the primary-key constraint.
C6_ForeignKeyClauses ==
    call.op = "initialize" =>
        LET fields == D_default_fields(call.D)
            fk == {i \in 1..Len(fields) : fields[i].foreign_key # <<>>}
            at(i) == CHOOSE p \in Places(call.req, ForeignKeyText(fields[i])) : TRUE
        IN  /\ \A i \in fk : Count(call.req, ForeignKeyText(fields[i])) = 1
            /\ \A i, j \in fk : i < j => at(i) < at(j)
            /\ \A i \in fk : \A p \in 1..Len(call.req) :
                  call.req[p] \in PrimaryKeyTexts(fields) => p < at(i)

\* C7: the create-table statement holds one PRIMARY KEY constraint when a descriptor is
\* primary-key-marked and none otherwise; it lists the marked names, comma-joined, in
\* descriptor order.
C7_CompositePrimaryKey ==
    call.op = "initialize" =>
        LET fields == D_default_fields(call.D)
            found == {p \in 1..Len(call.req) : call.req[p] \in PrimaryKeyTexts(fields)}
        IN  IF \E i \in 1..Len(fields) : fields[i].primary_key
            THEN /\ Cardinality(found) = 1
                 /\ \A p \in found :
                       call.req[p] = "PRIMARY KEY (" \o CommaList(MarkedNames(fields)) \o ")"
            ELSE found = {}

C7_Witness ==
    /\ call.op = "initialize"
    /\ MarkedNames(D_default_fields(call.D)) = <<"id1", "id2">>
    /\ Count(call.req, "PRIMARY KEY (id1,id2)") = 1

\* the rows the server returns to the get of call: get leaves the tables as they were
ReturnedRows(c) ==
    LET fields == D_default_fields(c.D)
    IN  ServerSelect(db, D_database_name(c.D),
                     [i \in 1..Len(fields) |-> fields[i].field_name], c.query)

\* C8: get returns Ok with one decoded record per returned row, in row order, or one
\* error: never a panic, never a part of the rows.
C8_GetAllOrNothing ==
    call.op = "get" =>
        /\ call.result.tag \in {"Ok", "Err"}
        /\ call.result.tag = "Ok" =>
              LET fields == D_default_fields(call.D)
                  rows == ReturnedRows(call).rows
              IN  /\ Len(call.result.value) = Len(rows)
                  /\ \A i \in 1..Len(rows) : \A j \in 1..Len(fields) :
                        FieldTypeFrom(call.result.value[i][fields[j].field_name]) = rows[i][j]

\* C9: Initialize::<User> on a database without a users table, then Insert of the test
\* user, then Get([Eq("id", "abc")]) ends with Get returning Ok with exactly that user.
C9_EndToEnd ==
    scenario \in {"got", "gotFresh"} =>
        /\ call.result.tag = "Ok"
        /\ Len(call.result.value) = 1
        /\ \A n \in FieldNames(User) : call.result.value[1][n] = TestUser[n]

\* the same sequence started where the table User is stored in does not exist either
C9_OnFreshTable ==
    scenario = "gotFresh" =>
        /\ call.result.tag = "Ok"
        /\ Len(call.result.value) = 1
        /\ \A n \in FieldNames(User) : call.result.value[1][n] = TestUser[n]

\* C10: update, delete and get statements hold a WHERE clause iff the condition list is
\* not empty; with n conditions the statement ends with " WHERE ", the n rendered
\* conditions in order with " AND " between them, and ";"; Delete([]) on users is
\* DELETE FROM users;
C10_WhereComposition ==
    call.op \in {"update", "delete", "get"} =>
        LET n == Len(call.query)
            L == Len(call.req)
        IN  /\ Count(call.req, " WHERE ") = (IF n > 0 THEN 1 ELSE 0)
            /\ Count(call.req, " AND ") = (IF n > 0 THEN n - 1 ELSE 0)
            /\ call.req[L] = ";"
            /\ n > 0 =>
                  /\ call.req[L - 2 * n] = " WHERE "
                  /\ \A i \in 1..n :
                        call.req[L - 2 * n + 2 * i - 1] = stringify_condition(call.query[i])
                  /\ \A i \in 1..(n - 1) : call.req[L - 2 * n + 2 * i] = " AND "
            /\ (call.op = "delete" /\ n = 0 /\ D_database_name(call.D) = "users") =>
                  Str(call.req) = "DELETE FROM users;"

C10_Witness ==
    /\ call.op = "update" /\ Len(call.query) = MaxConds
    /\ call.query[1] = CondIdAbc
    /\ Count(call.req, " AND ") = MaxConds - 1
    /\ call.result.tag = "Ok"

\* the symbol of each operator and the literal of each value, as the documentation gives them
SymbolOf(o) == [Eq |-> "=", Gt |-> ">", Gte |-> ">=", Lt |-> "<", Lte |-> "<="][o]
LiteralOf(v) ==
    IF v.tag = "String" THEN "'" \o v.str \o "'"
    ELSE IF v.tag = "Number" THEN ToString(v.num)
    ELSE IF v.bool THEN "true" ELSE "false"

\* C11: a condition (name, op, value) renders as <name> <symbol> <literal>, the symbol one
\* of the five distinct =, >, >=, <, <=, the literal quoted when Text and bare when Number
\* or Boolean; ("age", Gte, 18) is age >= 18 and ("name", Eq, "Bob") is name = 'Bob'.
C11_ConditionRendering ==
    (call.op \in {"update", "delete", "get"} /\ Len(call.query) = 1) =>
        LET c == call.query[1]
            rendered == call.req[Len(call.req) - 1]
        IN  /\ rendered = c.name \o " " \o SymbolOf(c.operator) \o " " \o LiteralOf(c.value)
            /\ \A o \in ConditionOperator \ {c.operator} :
                  get_string_operator(o) # get_string_operator(c.operator)
            /\ c = DatabaseConditionNew("age", "Gte", Number(18)) => rendered = "age >= 18"
            /\ c = DatabaseConditionNew("name", "Eq", String("Bob")) => rendered = "name = 'Bob'"

C11_Witness ==
    /\ call.op = "get" /\ call.query = <<DatabaseConditionNew("age", "Gte", Number(18))>>
    /\ Str(call.req) = "SELECT id, name, age, activated from aled WHERE age >= 18;"
    /\ call.result.tag = "Ok"

\* C12: in an insert or update statement over n descriptors the name list and the literal
\* list each hold n elements separated by ", " with no trailing separator, the i-th name
\* and the i-th literal those of the i-th descriptor, a Text value between single quotes
\* with its content verbatim, a Number or Boolean value bare.
C12_ColumnValueAlignment ==
    (call.op \in {"insert", "update"}) =>
        LET fields == fields_value(call.D, call.data)
            n == Len(fields)
            req == call.req
            names == 3
            values == 3 + 2 * n
        IN  /\ n >= 1
            /\ Len(req) >= 4 * n + 3
            /\ req[3] \in {"(", " SET ("}
            /\ req[values] \in {") VALUES(", ") = ("}
            /\ req[4 * n + 3] = ")"
            /\ Count(req, ", ") = 2 * (n - 1)
            /\ \A i \in 1..n :
                  /\ req[names + 2 * i - 1] = fields[i].field_name
                  /\ req[values + 2 * i - 1] = LiteralOf(fields[i].field_type)
                  /\ i < n => req[names + 2 * i] = ", " /\ req[values + 2 * i] = ", "
            /\ \A i \in 1..n :
                  call.data[call.D.fields[i].name].ty = "String" =>
                      req[values + 2 * i - 1] = "'" \o call.data[call.D.fields[i].name].str \o "'"

C12_Witness ==
    /\ call.op = "insert" /\ call.D = User /\ call.data = TestUser
    /\ Str(call.req) = "INSERT INTO aled(id, name, age, activated) VALUES('abc', 'Jo', 25, true)"
    /\ call.result.tag = "Ok"

\* C13: the parenthesised body of the create-table statement holds no empty element and no
\* trailing separator: each separator stands between two elements, so with no primary-key
\* and no foreign-key descriptor the last column definition is followed by the closing
\* parenthesis, not by a comma.
C13_CreateTableWellFormed ==
    call.op = "initialize" =>
        \A p \in Places(call.req, ",\n") :
            /\ 1 < p /\ p < Len(call.req)
            /\ call.req[p - 1] \notin {" (\n", ",\n"}
            /\ call.req[p + 1] \notin {",\n", ");"}

====
